---- MODULE Spec2Model ----
(***************************************************************************)
(* Model of src/bot.py: the reminder store (user_reminders), the           *)
(* APScheduler job store (scheduler), the coroutines of send_reminder that *)
(* are suspended in their send, the ConversationHandler state per user and *)
(* the handlers the Application dispatches updates to.                     *)
(*                                                                         *)
(* Time is counted in units of five minutes, so that the four delay        *)
(* classes are 1, 2, 6 and 12 units.                                       *)
(* The fields id/rid and the variables nextId, sent, counted and precancel *)
(* are history (ghost) state: no guard and no program variable depends on  *)
(* them.                                                                   *)
(***************************************************************************)
EXTENDS Integers, Sequences, FiniteSets, TLC

\* ---------------------------------------------------------------- bounds
Users == {1, 2}
Texts == {"x", "y"}
OneText == {"x"}
MaxNow == 1

\* words a /remind command is given as first argument
TimeArgs == {"5min", "5m", "10M", "bad"}
\* texts of non-command messages
Msgs == {"x", "5min"}
\* texts given to /autoreply
ReplyTexts == {"busy"}
\* clock advance between the two datetime.now() reads of one handler
NoAdvance == {0}
\* the clock may also tick between the two reads
ClockAdvance == {0, 1}
\* seconds into the present time unit at which /list reads the clock
SubTick == {0, 61}

\* ------------------------------------------------------- program constants
END == "Idle"
SETTING_REMINDER_TIME == "AwaitingDelay"
SETTING_REMINDER_TEXT == "AwaitingText"

REMINDER_TIMES ==
    ("5min" :> 1) @@ ("10min" :> 2) @@ ("30min" :> 6) @@ ("1h" :> 12)

Aliases == {"5m", "10m", "30m", "1h"}

\* a mapping that sends an alias to another delay class
time_mapping_shifted ==
    ("5m" :> "10min") @@ ("10m" :> "30min") @@ ("30m" :> "1h") @@ ("1h" :> "5min")

time_mapping ==
    ("5m" :> "5min") @@ ("10m" :> "10min") @@ ("30m" :> "30min") @@ ("1h" :> "1h")

None == "None"

\* str.lower() on the words the model feeds in
Lower(s) ==
    CASE s = "10M" -> "10m"
      [] s = "5M" -> "5m"
      [] s = "5MIN" -> "5min"
      [] s = "10MIN" -> "10min"
      [] s = "1H" -> "1h"
      [] OTHER -> s

\* dict.get(key, default)
Get(d, k, default) == IF k \in DOMAIN d THEN d[k] ELSE default

\* ' '.join(words) for the one-word tails the model feeds in
Join(ws) == ws[1]

\* filters.Regex('^(5min|10min|30min|1h)$') on a message text
RegexMatch(s) == s \in {"5min", "10min", "30min", "1h"}

\* f"reminder_{user_id}_{reminder_time.timestamp()}"
JobId(u, t) == <<"reminder", u, t>>

\* a prefix test that leaves out the user id
StartsWithAnyUser(id, u) == id[1] = "reminder"

\* job.id.startswith(f"reminder_{user_id}_")
StartsWith(id, u) == id[1] = "reminder" /\ id[2] = u

VARIABLES now, clockRead, user_reminders, user_auto_reply, jobs, running,
          conv, user_data, reply, nextId, sent, counted, precancel

vars == <<now, clockRead, user_reminders, user_auto_reply, jobs, running,
          conv, user_data, reply, nextId, sent, counted, precancel>>

\* the clock, and whether a handler has already read its present value
clock == <<now, clockRead>>

store == <<user_reminders, jobs, running>>
ghost == <<nextId, sent, counted, precancel>>

\* the latest answer given with update.message.reply_text
Reply(u, kind, n) == [user |-> u, kind |-> kind, count |-> n]

\* no answer: nothing handled yet, or the handler raised before it answered
NoReply == Reply(0, "none", 0)

Init ==
    /\ now = 0
    /\ clockRead = FALSE
    /\ user_reminders = <<>>
    /\ user_auto_reply = <<>>
    /\ jobs = {}
    /\ running = {}
    /\ conv = [u \in Users |-> END]
    /\ user_data = [u \in Users |-> <<>>]
    /\ reply = NoReply
    /\ nextId = 1
    /\ sent = {}
    /\ counted = {}
    /\ precancel = {}

\* the owner's list, [] when the owner has no entry
RemindersOf(u) == Get(user_reminders, u, <<>>)

\* the clock moves on
Tick ==
    /\ now < MaxNow
    /\ now' = now + 1
    /\ clockRead' = FALSE
    /\ UNCHANGED <<user_reminders, user_auto_reply, jobs, running,
                   conv, user_data, reply, ghost>>

\* scheduler.add_job(..., id=job_id) raises ConflictingIdError
Conflict(u, t) == \E j \in jobs : j.id = JobId(u, t)

\* the store-and-schedule block shared by set_reminder and set_reminder_text;
\* d is the time that passes between its two clock reads. Updates are handled
\* one after another and every handler awaits a network reply before it ends,
\* so a handler never reads a clock value an earlier handler has read.
Schedule(u, reminder_text, time_choice, d) ==
    LET reminder_time == now + REMINDER_TIMES[time_choice]
        reminder_data == [id |-> nextId, text |-> reminder_text,
                          time |-> reminder_time, set_at |-> now + d,
                          duration |-> time_choice]
        job_id == JobId(u, reminder_time)
    IN  /\ ~clockRead
        /\ now + d <= MaxNow
        /\ now' = now + d
        /\ clockRead' = TRUE
        /\ user_reminders' =
              IF u \in DOMAIN user_reminders
              THEN [user_reminders EXCEPT ![u] = Append(@, reminder_data)]
              ELSE user_reminders @@ (u :> <<reminder_data>>)
        /\ jobs' = IF Conflict(u, reminder_time) THEN jobs
                   ELSE jobs \cup {[id |-> job_id, run_date |-> reminder_time,
                                    user |-> u, text |-> reminder_text,
                                    rid |-> nextId]}
        /\ nextId' = nextId + 1
        /\ UNCHANGED <<running, sent, counted, precancel>>

\* the reply to an invalid time argument that also opens the conversation
RejectTimeArgOpen(u) ==
    /\ reply' = Reply(u, "invalid_time", 0)
    /\ conv' = [conv EXCEPT ![u] = SETTING_REMINDER_TIME]
    /\ UNCHANGED <<clock, store, user_auto_reply, user_data, ghost>>

\* the rejection of an invalid time argument in set_reminder
RejectTimeArg(u) ==
    /\ reply' = Reply(u, "invalid_time", 0)
    /\ UNCHANGED <<clock, store, user_auto_reply, conv, user_data, ghost>>

\* /remind, an entry point of the conversation: taken only outside a
\* conversation; d is the clock advance between the handler's two clock reads
set_reminder(u, args, d) ==
    /\ conv[u] = END
    /\ IF Len(args) >= 2
       THEN LET time_arg == Lower(args[1])
                reminder_text == Join(Tail(args))
            IN  IF time_arg \notin DOMAIN REMINDER_TIMES /\ time_arg \notin Aliases
                THEN RejectTimeArg(u)
                ELSE LET time_choice == Get(time_mapping, time_arg, time_arg)
                     IN  /\ Schedule(u, reminder_text, time_choice, d)
                         \* a raised ConflictingIdError skips the confirmation
                         /\ reply' = IF Conflict(u, now + REMINDER_TIMES[time_choice])
                                     THEN NoReply
                                     ELSE Reply(u, "reminder_set", 0)
                         /\ UNCHANGED <<user_auto_reply, conv, user_data>>
       ELSE /\ reply' = Reply(u, "choose_time", 0)
            /\ conv' = [conv EXCEPT ![u] = SETTING_REMINDER_TIME]
            /\ UNCHANGED <<clock, store, user_auto_reply, user_data, ghost>>

\* a set_reminder_time that asks for the text and stores no delay
set_reminder_time_forget(u, s) ==
    /\ conv[u] = SETTING_REMINDER_TIME
    /\ RegexMatch(s)
    /\ IF s \notin DOMAIN REMINDER_TIMES
       THEN /\ reply' = Reply(u, "reprompt", 0)
            /\ UNCHANGED <<conv, user_data>>
       ELSE /\ reply' = Reply(u, "ask_text", 0)
            /\ conv' = [conv EXCEPT ![u] = SETTING_REMINDER_TEXT]
            /\ UNCHANGED user_data
    /\ UNCHANGED <<clock, store, user_auto_reply, ghost>>

\* a text in state SETTING_REMINDER_TIME that the Regex filter lets through
set_reminder_time(u, s) ==
    /\ conv[u] = SETTING_REMINDER_TIME
    /\ RegexMatch(s)
    /\ IF s \notin DOMAIN REMINDER_TIMES
       THEN /\ reply' = Reply(u, "reprompt", 0)
            /\ UNCHANGED <<conv, user_data>>
       ELSE /\ user_data' = [user_data EXCEPT ![u] = ("reminder_time" :> s) @@ @]
            /\ reply' = Reply(u, "ask_text", 0)
            /\ conv' = [conv EXCEPT ![u] = SETTING_REMINDER_TEXT]
    /\ UNCHANGED <<clock, store, user_auto_reply, ghost>>

\* a non-command text in state SETTING_REMINDER_TEXT
set_reminder_text(u, s, d) ==
    /\ conv[u] = SETTING_REMINDER_TEXT
    /\ LET time_choice == Get(user_data[u], "reminder_time", None)
       IN  IF time_choice = None
           THEN /\ reply' = Reply(u, "went_wrong", 0)
                /\ conv' = [conv EXCEPT ![u] = END]
                /\ UNCHANGED <<clock, store, user_auto_reply, user_data, ghost>>
           ELSE /\ Schedule(u, s, time_choice, d)
                \* a raised ConflictingIdError leaves the conversation state
                /\ IF Conflict(u, now + REMINDER_TIMES[time_choice])
                   THEN /\ reply' = NoReply
                        /\ conv' = conv
                   ELSE /\ reply' = Reply(u, "reminder_set", 0)
                        /\ conv' = [conv EXCEPT ![u] = END]
                /\ UNCHANGED <<user_auto_reply, user_data>>

\* a scheduler that runs a due job and keeps it in the job store
FireStartKeep(j) ==
    /\ j \in jobs
    /\ j.run_date <= now
    /\ running' = running \cup {[user |-> j.user, text |-> j.text, rid |-> j.rid]}
    /\ sent' = sent \cup {j.rid}
    /\ UNCHANGED <<clock, user_reminders, user_auto_reply, jobs, conv, user_data, reply,
                   nextId, counted, precancel>>

\* the scheduler runs a due job: the job leaves the job store and its
\* send_reminder coroutine runs up to the await of send_message
FireStart(j) ==
    /\ j \in jobs
    /\ j.run_date <= now
    /\ jobs' = jobs \ {j}
    /\ running' = running \cup {[user |-> j.user, text |-> j.text, rid |-> j.rid]}
    /\ sent' = sent \cup {j.rid}
    /\ UNCHANGED <<clock, user_reminders, user_auto_reply, conv, user_data, reply,
                   nextId, counted, precancel>>

\* the list comprehension of send_reminder
RemoveByText(rs, reminder_text) ==
    SelectSeq(rs, LAMBDA r : r.text # reminder_text)

\* send_message returns (ok) or raises (~ok) and send_reminder runs to its end
send_reminder(c, ok) ==
    /\ c \in running
    /\ running' = running \ {c}
    /\ user_reminders' =
          IF ok /\ c.user \in DOMAIN user_reminders
          THEN [user_reminders EXCEPT ![c.user] = RemoveByText(@, c.text)]
          ELSE user_reminders
    /\ UNCHANGED <<clock, user_auto_reply, jobs, conv, user_data, reply, ghost>>

IdsOf(rs) == {rs[i].id : i \in 1..Len(rs)}

\* ids of the owner's reminders that have not finished firing
Outstanding(u) ==
    IdsOf(RemindersOf(u)) \cup {j.rid : j \in {k \in jobs : k.user = u}}
                          \cup {c.rid : c \in {k \in running : k.user = u}}

\* cancel_reminders that removes the jobs and leaves the list
cancel_reminders_keep(u) ==
    /\ conv[u] = END
    /\ IF u \in DOMAIN user_reminders /\ user_reminders[u] # <<>>
       THEN /\ jobs' = {j \in jobs : ~StartsWith(j.id, u)}
            /\ reply' = Reply(u, "cancelled", Len(user_reminders[u]))
            /\ counted' = counted \cup IdsOf(user_reminders[u])
            /\ UNCHANGED user_reminders
       ELSE /\ reply' = Reply(u, "no_reminders", 0)
            /\ UNCHANGED <<jobs, user_reminders, counted>>
    /\ precancel' = precancel \cup Outstanding(u)
    /\ UNCHANGED <<clock, user_auto_reply, running, conv, user_data, nextId, sent>>

\* /cancel outside a conversation
cancel_reminders(u) ==
    /\ conv[u] = END
    /\ IF u \in DOMAIN user_reminders /\ user_reminders[u] # <<>>
       THEN /\ jobs' = {j \in jobs : ~StartsWith(j.id, u)}
            /\ user_reminders' = [user_reminders EXCEPT ![u] = <<>>]
            /\ reply' = Reply(u, "cancelled", Len(user_reminders[u]))
            /\ counted' = counted \cup IdsOf(user_reminders[u])
       ELSE /\ reply' = Reply(u, "no_reminders", 0)
            /\ UNCHANGED <<jobs, user_reminders, counted>>
    /\ precancel' = precancel \cup Outstanding(u)
    /\ UNCHANGED <<clock, user_auto_reply, running, conv, user_data, nextId, sent>>

\* a fallback that answers and leaves the conversation open
cancel_stay(u) ==
    /\ conv[u] # END
    /\ reply' = Reply(u, "operation_cancelled", 0)
    /\ UNCHANGED <<clock, store, user_auto_reply, conv, user_data, ghost>>

\* /cancel inside a conversation: the fallback of the ConversationHandler
cancel(u) ==
    /\ conv[u] # END
    /\ conv' = [conv EXCEPT ![u] = END]
    /\ reply' = Reply(u, "operation_cancelled", 0)
    /\ UNCHANGED <<clock, store, user_auto_reply, user_data, ghost>>

\* seconds in one unit of time
UnitSeconds == 300

\* int(x / d) of Python: the quotient without its fraction
IntTrunc(x, d) == IF x >= 0 THEN x \div d ELSE -((-x) \div d)

Max(a, b) == IF a >= b THEN a ELSE b

\* minutes left without the max(0, ...)
minutes_left_signed(time, t, secs) ==
    LET total_seconds == (time - t) * UnitSeconds - secs
    IN  IntTrunc(total_seconds, 60)

\* minutes_left of a reminder due at unit `time` when the clock is read
\* `secs` seconds into unit `t`
minutes_left(time, t, secs) ==
    LET total_seconds == (time - t) * UnitSeconds - secs
    IN  Max(0, IntTrunc(total_seconds, 60))

\* the clock reads of the loop of list_reminders, one per listed reminder,
\* each no earlier than the one before
ClockReads(n) ==
    {ss \in [1..n -> SubTick] : \A i \in 1..n : \A k \in 1..n : i <= k => ss[i] <= ss[k]}

\* the answer of /list: one line per reminder, in the order of the loop
ListReply(u, lines) ==
    [user |-> u, kind |-> "list", count |-> Len(lines), lines |-> lines]

\* /list; ss[i] is the clock read of the i-th turn of the loop
list_reminders(u) ==
    /\ UNCHANGED <<clock, store, user_auto_reply, conv, user_data, ghost>>
    /\ IF u \notin DOMAIN user_reminders \/ user_reminders[u] = <<>>
       THEN reply' = Reply(u, "no_active", 0)
       ELSE \E ss \in ClockReads(Len(user_reminders[u])) :
               reply' = ListReply(u,
                  [i \in 1..Len(user_reminders[u]) |->
                      [text |-> user_reminders[u][i].text,
                       minutes_left |-> minutes_left(user_reminders[u][i].time, now, ss[i])]])

\* /autoreply
set_auto_reply(u, args) ==
    /\ IF Len(args) > 0
       THEN /\ user_auto_reply' = (u :> Join(args)) @@ user_auto_reply
            /\ reply' = Reply(u, "autoreply_set", 0)
       ELSE /\ reply' = Reply(u, "autoreply_usage", 0)
            /\ UNCHANGED user_auto_reply
    /\ UNCHANGED <<clock, store, conv, user_data, ghost>>

\* /disableautoreply
disable_auto_reply(u) ==
    /\ IF u \in DOMAIN user_auto_reply
       THEN /\ user_auto_reply' = [v \in DOMAIN user_auto_reply \ {u} |-> user_auto_reply[v]]
            /\ reply' = Reply(u, "autoreply_disabled", 0)
       ELSE /\ reply' = Reply(u, "autoreply_not_enabled", 0)
            /\ UNCHANGED user_auto_reply
    /\ UNCHANGED <<clock, store, conv, user_data, ghost>>

\* a non-command text that the ConversationHandler does not take: outside a
\* conversation, or in SETTING_REMINDER_TIME when the Regex filter rejects it
handle_message(u, s) ==
    /\ \/ conv[u] = END
       \/ conv[u] = SETTING_REMINDER_TIME /\ ~RegexMatch(s)
    /\ reply' = IF u \in DOMAIN user_auto_reply
                THEN Reply(u, "auto_custom", 0)
                ELSE Reply(u, "auto_pool", 0)
    /\ UNCHANGED <<clock, store, user_auto_reply, conv, user_data, ghost>>

\* ------------------------------------------------- dispatch of updates
\* /cancel: the ConversationHandler (added first) takes it with its fallback
\* while a conversation is open, otherwise CommandHandler('cancel', ...) does
CancelCommand(u) == cancel(u) \/ cancel_reminders(u)

\* a non-command text: the state's MessageHandler of the ConversationHandler
\* if it matches, otherwise the catch-all MessageHandler
TextMessage(u, s) ==
    \/ set_reminder_time(u, s)
    \/ \E d \in NoAdvance : set_reminder_text(u, s, d)
    \/ handle_message(u, s)

\* ------------------------------------------------------- specifications
\* reminders and conversation: every handler but the two auto-reply
\* commands, with the reminder texts drawn from T
Handlers(T) ==
    \/ Tick
    \/ \E u \in Users, a \in TimeArgs, t \in T, d \in NoAdvance :
          set_reminder(u, <<a, t>>, d)
    \/ \E u \in Users, d \in NoAdvance : set_reminder(u, <<>>, d)
    \/ \E u \in Users, s \in Msgs : set_reminder_time(u, s)
    \/ \E u \in Users, s \in T, d \in NoAdvance : set_reminder_text(u, s, d)
    \/ \E j \in jobs : FireStart(j)
    \/ \E c \in running, ok \in BOOLEAN : send_reminder(c, ok)
    \/ \E u \in Users : cancel_reminders(u)
    \/ \E u \in Users : cancel(u)
    \/ \E u \in Users, s \in Msgs : handle_message(u, s)

NextCore == Handlers(Texts)

SpecCore == Init /\ [][NextCore]_vars

\* the same handlers with every reminder given the same text
NextOneText == Handlers(OneText)

SpecOneText == Init /\ [][NextOneText]_vars

\* the same handlers where the clock may tick between the two datetime.now()
\* reads of the store-and-schedule block
NextClock ==
    \/ NextOneText
    \/ \E u \in Users, a \in TimeArgs, t \in OneText, d \in ClockAdvance \ NoAdvance :
          set_reminder(u, <<a, t>>, d)
    \/ \E u \in Users, s \in OneText, d \in ClockAdvance \ NoAdvance :
          set_reminder_text(u, s, d)

SpecClock == Init /\ [][NextClock]_vars

\* the reminder and conversation handlers together with /list
NextList ==
    \/ NextOneText
    \/ \E u \in Users : list_reminders(u)

SpecList == Init /\ [][NextList]_vars

\* two users who set their reminders in the conversation, list and cancel
\* them and switch their auto-reply on and off
NextFrame ==
    \/ Tick
    \/ \E u \in Users, d \in NoAdvance : set_reminder(u, <<>>, d)
    \/ \E u \in Users, s \in Msgs : set_reminder_time(u, s)
    \/ \E u \in Users, s \in OneText, d \in NoAdvance : set_reminder_text(u, s, d)
    \/ \E j \in jobs : FireStart(j)
    \/ \E c \in running, ok \in BOOLEAN : send_reminder(c, ok)
    \/ \E u \in Users : cancel_reminders(u)
    \/ \E u \in Users : cancel(u)
    \/ \E u \in Users : list_reminders(u)
    \/ \E u \in Users, t \in ReplyTexts : set_auto_reply(u, <<t>>)
    \/ \E u \in Users : disable_auto_reply(u)

SpecFrame == Init /\ [][NextFrame]_vars

\* every handler
Next ==
    \/ NextCore
    \/ \E u \in Users, t \in ReplyTexts : set_auto_reply(u, <<t>>)
    \/ \E u \in Users : set_auto_reply(u, <<>>)
    \/ \E u \in Users : disable_auto_reply(u)

Spec == Init /\ [][Next]_vars

\* ------------------------------------------------------------- claims
HasId(rs, id) == \E i \in 1..Len(rs) : rs[i].id = id

\* C1: whenever no fire callback is under way, every stored reminder has
\* exactly one pending job that will fire it and every pending job belongs to
\* exactly one stored reminder of its owner.
C1_OneToOne ==
    running = {} =>
       /\ \A u \in DOMAIN user_reminders : \A i \in 1..Len(user_reminders[u]) :
             Cardinality({j \in jobs : j.user = u /\ j.rid = user_reminders[u][i].id}) = 1
       /\ \A j \in jobs :
             Cardinality({i \in 1..Len(RemindersOf(j.user)) :
                             RemindersOf(j.user)[i].id = j.rid}) = 1

\* C2: when a fire callback finishes, with the send succeeded or failed, the
\* owner's list no longer holds the reminder that fired.
C2_FiredIsRemoved ==
    [][\A c \in running, ok \in BOOLEAN :
          send_reminder(c, ok) =>
             ~HasId(Get(user_reminders', c.user, <<>>), c.rid)]_vars

\* C3: right after cancelAll(owner), in both of its branches, the owner's
\* list is empty and no job of the owner is pending.
C3_CancelAllLeavesNothing ==
    [][\A u \in Users :
          cancel_reminders(u) =>
             /\ Get(user_reminders', u, <<>>) = <<>>
             /\ \A j \in jobs' : j.user # u]_vars

\* C4: no reminder is both counted as cancelled and passed to the notifier,
\* and no reminder that was outstanding at a cancelAll of its owner is fired
\* or delivered after that cancelAll.
C4_NoCancelledDelivery ==
    [][/\ counted' \cap sent' = {}
       /\ \A j \in jobs : FireStart(j) => j.rid \notin precancel
       /\ \A c \in running : send_reminder(c, TRUE) => c.rid \notin precancel]_vars

\* C5: cancelAll with at least one active reminder returns a positive count
\* and leaves nothing for a repeated call to count; a cancelAll that follows a
\* cancelAll of the same owner returns 0 and changes neither the store, the
\* jobs nor the notifier calls; cancelAll with no active reminder returns 0
\* and leaves the program state unchanged.
C5_CancelAllIdempotent ==
    [][\A u \in Users :
          cancel_reminders(u) =>
             /\ RemindersOf(u) # <<>> =>
                   /\ reply'.kind = "cancelled" /\ reply'.count > 0
                   /\ Len(Get(user_reminders', u, <<>>)) = 0
             /\ RemindersOf(u) = <<>> =>
                   /\ reply'.kind = "no_reminders" /\ reply'.count = 0
                   /\ UNCHANGED <<clock, store, user_auto_reply, conv, user_data, sent>>
             /\ (reply.user = u /\ reply.kind \in {"cancelled", "no_reminders"}) =>
                   /\ reply'.count = 0
                   /\ UNCHANGED <<store, sent>>]_vars

\* a cancelAll that returned 0 after the owner's only reminder, never fired,
\* had been counted by an earlier cancelAll
C5_Witness ==
    \E u \in Users :
       /\ reply = Reply(u, "no_reminders", 0)
       /\ nextId = 2 /\ counted = {1} /\ sent = {}
       /\ u \in DOMAIN user_reminders /\ user_reminders[u] = <<>>

\* the time arguments set_reminder is meant to accept, compared as the
\* command compares them (without regard to case)
C6_Recognised(a) ==
    Lower(a) \in {"5min", "10min", "30min", "1h", "5m", "10m", "30m"}

\* C6: a single-command /remind whose time argument is neither a delay class
\* nor a short alias is rejected: store, jobs, running callbacks, clock reads
\* and the conversation state (Idle) stay as they were.
C6_InvalidTokenNoEffect ==
    [][\A u \in Users, a \in TimeArgs, t \in Texts, d \in NoAdvance :
          (~C6_Recognised(a) /\ set_reminder(u, <<a, t>>, d)) =>
             /\ reply'.kind = "invalid_time"
             /\ conv'[u] = END
             /\ UNCHANGED <<clock, store, conv, user_data, nextId>>]_vars

\* an invalid time argument was rejected while the user had a reminder stored
\* and a job pending
C6_Witness ==
    \E u \in Users :
       /\ reply = Reply(u, "invalid_time", 0)
       /\ RemindersOf(u) # <<>>
       /\ \E j \in jobs : j.user = u

\* C7 as stated: /cancel in any conversation state leaves the session Idle
\* and the store and the jobs unchanged.
C7_CancelNeverTouchesStore ==
    [][\A u \in Users :
          CancelCommand(u) =>
             /\ conv'[u] = END
             /\ UNCHANGED <<user_reminders, jobs>>]_vars

\* C7 amended: /cancel leaves the session Idle in every conversation state;
\* in AwaitingDelay and AwaitingText it leaves store and jobs unchanged, and in
\* Idle it does so only when the user has no active reminder (there /cancel is
\* cancelAll).
C7_CancelInConversation ==
    [][\A u \in Users :
          CancelCommand(u) =>
             /\ conv'[u] = END
             /\ (conv[u] # END \/ RemindersOf(u) = <<>>) =>
                   UNCHANGED <<user_reminders, jobs, running>>]_vars

\* a conversation of a user with a stored reminder and a pending job was
\* cancelled
C7_Witness ==
    \E u \in Users :
       /\ reply = Reply(u, "operation_cancelled", 0)
       /\ conv[u] = END
       /\ RemindersOf(u) # <<>>
       /\ \E j \in jobs : j.user = u

\* C8: in AwaitingDelay a text that is not one of the four delay tokens keeps
\* the session in AwaitingDelay, creates nothing, stores no pending delay
\* class, and is answered with the re-prompt of the delay menu.
C8_InvalidDelayReprompts ==
    [][\A u \in Users, s \in Msgs :
          (/\ conv[u] = SETTING_REMINDER_TIME
           /\ s \notin {"5min", "10min", "30min", "1h"}
           /\ TextMessage(u, s)) =>
             /\ conv'[u] = SETTING_REMINDER_TIME
             /\ UNCHANGED <<store, user_data>>
             /\ reply'.kind = "reprompt"]_vars

\* C9: /remind without arguments opens AwaitingDelay and a valid token opens
\* AwaitingText, both without touching the store; the text that follows ends
\* in Idle with exactly one reminder appended, of that text and the chosen
\* delay class, and exactly one new job, which is the job of that reminder.
C9_InteractiveFlow ==
    [][\A u \in Users :
          /\ \A d \in NoAdvance : set_reminder(u, <<>>, d) =>
                conv'[u] = SETTING_REMINDER_TIME /\ UNCHANGED store
          /\ \A s \in Msgs : set_reminder_time(u, s) =>
                /\ conv'[u] = SETTING_REMINDER_TEXT /\ UNCHANGED store
                /\ Get(user_data'[u], "reminder_time", None) = s
          /\ \A s \in Texts, d \in NoAdvance : set_reminder_text(u, s, d) =>
                LET rs == Get(user_reminders', u, <<>>)
                    r == rs[Len(rs)]
                IN  /\ conv'[u] = END
                    /\ Len(rs) = Len(RemindersOf(u)) + 1
                    /\ SubSeq(rs, 1, Len(rs) - 1) = RemindersOf(u)
                    /\ r.text = s
                    /\ r.duration = Get(user_data[u], "reminder_time", None)
                    /\ Cardinality(jobs' \ jobs) = 1
                    /\ \A j \in jobs' \ jobs :
                          j.user = u /\ j.rid = r.id /\ j.text = s
                                     /\ j.run_date = r.time]_vars

\* the list without the reminder of the given identity
C10_Without(rs, id) == SelectSeq(rs, LAMBDA r : r.id # id)

\* C10: when a reminder has been sent, the owner's list afterwards is the list
\* before without that one reminder; every other reminder stays.
C10_FireRemovesOnlyFired ==
    [][\A c \in running :
          send_reminder(c, TRUE) =>
             Get(user_reminders', c.user, <<>>)
                = C10_Without(RemindersOf(c.user), c.rid)]_vars

\* C11: every stored reminder has time = set_at + REMINDER_TIMES[duration],
\* whatever time passes between the two clock reads of the handler that
\* stored it.
C11_ScheduledAtExact ==
    \A u \in DOMAIN user_reminders : \A i \in 1..Len(user_reminders[u]) :
       LET r == user_reminders[u][i]
       IN  r.time = r.set_at + REMINDER_TIMES[r.duration]

\* what the program holds for user b has changed: the reminder list, the
\* pending jobs, the conversation state or the auto-reply text
C12_Changed(b) ==
    \/ conv' # conv /\ conv'[b] # conv[b]
    \/ user_auto_reply' # user_auto_reply
          /\ Get(user_auto_reply', b, None) # Get(user_auto_reply, b, None)
    \/ user_reminders' # user_reminders
          /\ Get(user_reminders', b, <<>>) # Get(user_reminders, b, <<>>)
    \/ jobs' # jobs /\ \E j \in (jobs' \ jobs) \cup (jobs \ jobs') : j.user = b

\* a step taken for user a: one of a's updates is handled, or a job of a is
\* run, or a send_reminder of a runs to its end
C12_OperationOf(a) ==
    \/ \E x \in TimeArgs, t \in OneText, d \in NoAdvance : set_reminder(a, <<x, t>>, d)
    \/ \E d \in NoAdvance : set_reminder(a, <<>>, d)
    \/ \E s \in Msgs : set_reminder_time(a, s)
    \/ \E s \in OneText, d \in NoAdvance : set_reminder_text(a, s, d)
    \/ \E j \in jobs : j.user = a /\ FireStart(j)
    \/ \E c \in running, ok \in BOOLEAN : c.user = a /\ send_reminder(c, ok)
    \/ cancel_reminders(a)
    \/ cancel(a)
    \/ list_reminders(a)
    \/ \E t \in ReplyTexts : set_auto_reply(a, <<t>>)
    \/ disable_auto_reply(a)

\* C12: a step taken for user A (a schedule, the fire of one of A's
\* reminders, cancelAll, /list, a conversation step, cancel, setting or
\* disabling the auto-reply) leaves the reminder list, the pending jobs, the
\* conversation state and the auto-reply text of every other user B unchanged.
C12_NoCrossUserEffect ==
    [][\A b \in Users :
          C12_Changed(b) => \A a \in Users \ {b} : ~C12_OperationOf(a)]_vars

\* user 1 cancelled all reminders while user 2 had a reminder stored, a job
\* pending, a conversation open and an auto-reply set
C12_Witness ==
    /\ reply = Reply(1, "cancelled", 1)
    /\ RemindersOf(2) # <<>>
    /\ \E j \in jobs : j.user = 2
    /\ conv[2] = SETTING_REMINDER_TEXT
    /\ 2 \in DOMAIN user_auto_reply

\* C13: a reminder is passed to the notifier at most once: a job that is
\* still pending belongs to a reminder never passed to the notifier, no two
\* jobs and no two running callbacks belong to the same reminder, and after a
\* failed send nothing is left that would send the reminder again.
C13_FireOnce ==
    /\ \A j \in jobs : j.rid \notin sent
    /\ \A j \in jobs : \A k \in jobs : j.rid = k.rid => j = k
    /\ \A c \in running : c.rid \in sent
    /\ \A c \in running : \A k \in running : c.rid = k.rid => c = k

\* a send has failed: the reminder is still stored, it has been passed to
\* the notifier, and no job and no callback is left
C13_Witness ==
    /\ jobs = {}
    /\ running = {}
    /\ \E u \in Users : \E i \in 1..Len(RemindersOf(u)) : RemindersOf(u)[i].id \in sent

\* the delay class each short alias stands for
C14_Canonical ==
    ("5m" :> "5min") @@ ("10m" :> "10min") @@ ("30m" :> "30min") @@ ("1h" :> "1h")

\* C14: a single-command /remind with a short alias does exactly what the
\* same command does with the delay class the alias stands for: the same
\* reminder is stored (label, time, text) and the same job is added.
C14_AliasAsCanonical ==
    [][\A u \in Users, a \in DOMAIN C14_Canonical, t \in OneText, d \in NoAdvance :
          /\ set_reminder(u, <<a, t>>, d) <=> set_reminder(u, <<C14_Canonical[a], t>>, d)
          /\ set_reminder(u, <<a, t>>, d) =>
                LET rs == Get(user_reminders', u, <<>>)
                IN  rs[Len(rs)].duration = C14_Canonical[a]]_vars

\* a single-command /remind has stored a reminder of class 5min and its job
\* for a user who never chose a delay in the conversation
C14_Witness ==
    \E u \in Users :
       /\ reply = Reply(u, "reminder_set", 0)
       /\ user_data[u] = <<>>
       /\ Len(RemindersOf(u)) = 1
       /\ RemindersOf(u)[1].duration = "5min"
       /\ \E j \in jobs : j.rid = RemindersOf(u)[1].id /\ j.run_date = RemindersOf(u)[1].time

\* C15: a non-command message is answered with an auto-reply only when the
\* sender's conversation state is Idle.
C15_AutoReplyOnlyIdle ==
    [][\A u \in Users, s \in Msgs : handle_message(u, s) => conv[u] = END]_vars

\* the minutes of each delay class
C16_Minutes ==
    ("5min" :> 5) @@ ("10min" :> 10) @@ ("30min" :> 30) @@ ("1h" :> 60)

\* C16: /list of a user with stored reminders answers with one line per
\* stored reminder, in the order of the list, which is the order in which
\* the reminders were added; the minutes of a line are the whole minutes from
\* the clock read to the reminder's time, 0 when that time has passed, and so
\* never negative and never more than the minutes of the delay class.
C16_ListInOrder ==
    [][\A u \in Users :
          (reply'.kind = "list" /\ reply'.user = u /\ list_reminders(u)) =>
             LET rs == RemindersOf(u)
                 lines == reply'.lines
             IN  /\ Len(lines) = Len(rs)
                 /\ \A i \in 1..Len(rs) :
                       /\ lines[i].text = rs[i].text
                       /\ lines[i].minutes_left >= 0
                       /\ lines[i].minutes_left <= C16_Minutes[rs[i].duration]
                 /\ \E ss \in ClockReads(Len(rs)) : \A i \in 1..Len(rs) :
                       LET secs == (rs[i].time - now) * UnitSeconds - ss[i]
                           m == lines[i].minutes_left
                       IN  /\ secs <= 0 => m = 0
                           /\ secs > 0 => (60 * m <= secs /\ secs < 60 * m + 60)
                 /\ \A i \in 1..Len(rs) : \A k \in 1..Len(rs) :
                       i < k => rs[i].id < rs[k].id]_vars

\* /list has answered with two reminders: the first is overdue (0 minutes),
\* the second was set less than two minutes before (3 whole minutes left)
C16_Witness ==
    /\ reply.kind = "list"
    /\ reply.lines = <<[text |-> "x", minutes_left |-> 0],
                       [text |-> "x", minutes_left |-> 3]>>

\* C17: every stored reminder that has not yet been passed to the notifier
\* has a pending job of its own, also when another reminder of the same user
\* is due at the same instant; without such a job it can never fire.
C17_StoredUnsentHasJob ==
    \A u \in DOMAIN user_reminders : \A i \in 1..Len(user_reminders[u]) :
       user_reminders[u][i].id \notin sent =>
          \E j \in jobs : j.user = u /\ j.rid = user_reminders[u][i].id

\* C18: the count cancelAll answers with is the number of the owner's jobs
\* it removed and the number of reminders it removed from the owner's list.
C18_CountIsJobsAndReminders ==
    [][\A u \in Users :
          cancel_reminders(u) =>
             /\ reply'.count = Cardinality(jobs \ jobs')
             /\ reply'.count = Len(RemindersOf(u)) - Len(Get(user_reminders', u, <<>>))]_vars

\* C19: a delay chosen in the conversation is stored for a user only while
\* that user's conversation is in AwaitingText.
C19_PendingOnlyInText ==
    \A u \in Users :
       conv[u] # SETTING_REMINDER_TEXT => "reminder_time" \notin DOMAIN user_data[u]

\* C20: while a conversation is in AwaitingText the stored delay is one of
\* the four delay classes, and the text step never answers "Something went
\* wrong".
C20_TextStepHasDelay ==
    /\ \A u \in Users :
          conv[u] = SETTING_REMINDER_TEXT =>
             Get(user_data[u], "reminder_time", None) \in {"5min", "10min", "30min", "1h"}
    /\ reply.kind # "went_wrong"

\* the text step has stored a reminder with the delay chosen in the
\* conversation
C20_Witness ==
    \E u \in Users :
       /\ reply = Reply(u, "reminder_set", 0)
       /\ conv[u] = END
       /\ Get(user_data[u], "reminder_time", None) = "5min"
       /\ nextId = 2
       /\ Len(RemindersOf(u)) = 1

====
